---- MODULE Spec2Model ----
(***************************************************************************)
(* Model of pkg/host/host.go of the nic-configuration-operator: the host   *)
(* manager's NV-config validation and apply operations and the runtime     *)
(* apply operation, run against a host utility whose NV state is the three *)
(* parameter maps CurrentConfig / NextBootConfig / DefaultConfig.          *)
(*                                                                         *)
(* One action models one whole call of an operation.  The host calls the   *)
(* operation issues are recorded, in order, in last.calls; the inputs a    *)
(* call does not control (which host call fails, the order in which Go     *)
(* iterates a map) are drawn with \E.                                       *)
(***************************************************************************)
EXTENDS Integers, Sequences, FiniteSets, TLC

VARIABLES
    host,     \* the device's NV state behind the host utility
    device,   \* the NicDevice handed to every call (its Spec.Configuration)
    last,     \* the operation that ran last: its inputs, host calls and results
    rt,       \* the runtime side: ports, live runtime settings, last runtime call
    disc,     \* discovery: the host's PCI enumeration and the last call's result
    conc      \* two calls in flight on two devices, one host call per step

vars == <<host, device, last, rt, disc, conc>>

----------------------------------------------------------------------------
(* Constants of pkg/consts and the parameter universe.                     *)

AdvancedPCISettingsParam == "ADVANCED_PCI_SETTINGS"
NvParamFalse == "0"
NvParamTrue == "1"

\* The NV parameters, besides the gate, a template can name.
TemplateParams == {"P1", "P2"}
Params == {AdvancedPCISettingsParam} \cup TemplateParams

\* Number of distinct values an NV parameter can take ("0", "1", ...).
NumValues == 2
Values == {ToString(i) : i \in 0..(NumValues - 1)}

\* A Go map[string]string over keys of S: a function on a subset of S.
Maps(S) == UNION {[D -> Values] : D \in SUBSET S}

Has(m, p) == p \in DOMAIN m

\* The orders in which a range loop may visit the keys of a map.
Orders == {s \in [1..Cardinality(TemplateParams) -> TemplateParams] :
             \A i, j \in DOMAIN s : i # j => s[i] # s[j]}

\* The keys of map m in the order `order` visits them.
RangeOver(order, m) == SelectSeq(order, LAMBDA p : p \in DOMAIN m)

----------------------------------------------------------------------------
(* The host utility (HostUtils): NV queries and writes of one device.      *)

\* types.NvConfigQuery as QueryNvConfig returns it.
QueryNvConfig(h) ==
    [CurrentConfig  |-> h.CurrentConfig,
     NextBootConfig |-> h.NextBootConfig,
     DefaultConfig  |-> h.DefaultConfig]

\* A successful SetNvConfigParameter stages the value for the next boot.
SetNvConfigParameter(h, param, value) ==
    [h EXCEPT !.NextBootConfig = (param :> value) @@ @]

\* A successful ResetNvConfig stages the factory defaults for the next boot.
ResetNvConfig(h) == [h EXCEPT !.NextBootConfig = h.DefaultConfig]

\* The staged values become the active ones; with the gate active, the
\* parameters hidden behind it appear, at their factory value, in all maps.
Activate(h) ==
    LET gateOn == Has(h.NextBootConfig, AdvancedPCISettingsParam)
                  /\ h.NextBootConfig[AdvancedPCISettingsParam] = NvParamTrue
        shown == IF gateOn THEN [p \in h.hidden |-> NvParamFalse] ELSE <<>>
    IN [CurrentConfig  |-> shown @@ h.NextBootConfig @@ h.CurrentConfig,
        NextBootConfig |-> shown @@ h.NextBootConfig,
        DefaultConfig  |-> shown @@ h.DefaultConfig,
        hidden         |-> IF gateOn THEN {} ELSE h.hidden]

\* A successful ResetNicFirmware: a live reset, its effect is immediate.
ResetNicFirmware(h) == Activate(h)

----------------------------------------------------------------------------
(* configValidation: the configuration calculator.                         *)

AdvancedPCISettingsEnabled(currentConfig) ==
    Has(currentConfig, AdvancedPCISettingsParam)
    /\ currentConfig[AdvancedPCISettingsParam] = NvParamTrue

\* The desired parameter map of the device's template; a template naming a
\* parameter the default config lacks is a spec error.
ConstructNvParamMapFromTemplate(dev, defaultConfig) ==
    IF \E p \in DOMAIN dev.Template : ~Has(defaultConfig, p)
    THEN [err |-> "spec", desiredConfig |-> <<>>]
    ELSE [err |-> "nil", desiredConfig |-> dev.Template]

\* Reset-to-default check: any mismatch of current and default config means
\* update and reboot are needed.
ValidateResetToDefault(nvConfig) ==
    IF nvConfig.CurrentConfig = nvConfig.DefaultConfig
    THEN [configUpdateNeeded |-> FALSE, rebootNeeded |-> FALSE, err |-> "nil"]
    ELSE [configUpdateNeeded |-> TRUE, rebootNeeded |-> TRUE, err |-> "nil"]

----------------------------------------------------------------------------
(* hostManager.ValidateDeviceNvSpec                                        *)

\* Mutants of ValidateParameter.  (1) a staged value is taken as settled
\* without looking at the current value.
ValidateParameter_CurrentUnchecked(acc, parameter, desiredValue, nvConfig, advancedPciSettingsEnabled) ==
    LET foundInCurrent == Has(nvConfig.CurrentConfig, parameter)
        foundInNextBoot == Has(nvConfig.NextBootConfig, parameter)
    IN IF advancedPciSettingsEnabled /\ ~foundInCurrent
       THEN [configUpdateNeeded |-> FALSE, rebootNeeded |-> FALSE, err |-> "spec"]
       ELSE IF foundInNextBoot /\ nvConfig.NextBootConfig[parameter] = desiredValue
       THEN acc
       ELSE [acc EXCEPT !.configUpdateNeeded = TRUE, !.rebootNeeded = TRUE]

\* (2) a parameter absent from the current config is not taken as differing.
ValidateParameter_AbsentCurrentIgnored(acc, parameter, desiredValue, nvConfig, advancedPciSettingsEnabled) ==
    LET foundInCurrent == Has(nvConfig.CurrentConfig, parameter)
        foundInNextBoot == Has(nvConfig.NextBootConfig, parameter)
    IN IF advancedPciSettingsEnabled /\ ~foundInCurrent
       THEN [configUpdateNeeded |-> FALSE, rebootNeeded |-> FALSE, err |-> "spec"]
       ELSE IF foundInNextBoot /\ nvConfig.NextBootConfig[parameter] = desiredValue
       THEN IF foundInCurrent /\ nvConfig.CurrentConfig[parameter] # desiredValue
            THEN [acc EXCEPT !.rebootNeeded = TRUE]
            ELSE acc
       ELSE [acc EXCEPT !.configUpdateNeeded = TRUE, !.rebootNeeded = TRUE]

\* (3) each pass assigns the flags instead of only raising them.
ValidateParameter_LastWins(acc, parameter, desiredValue, nvConfig, advancedPciSettingsEnabled) ==
    LET foundInCurrent == Has(nvConfig.CurrentConfig, parameter)
        foundInNextBoot == Has(nvConfig.NextBootConfig, parameter)
    IN IF advancedPciSettingsEnabled /\ ~foundInCurrent
       THEN [configUpdateNeeded |-> FALSE, rebootNeeded |-> FALSE, err |-> "spec"]
       ELSE IF foundInNextBoot /\ nvConfig.NextBootConfig[parameter] = desiredValue
       THEN [acc EXCEPT !.configUpdateNeeded = FALSE,
                        !.rebootNeeded = ~foundInCurrent
                            \/ nvConfig.CurrentConfig[parameter] # desiredValue]
       ELSE [acc EXCEPT !.configUpdateNeeded = TRUE, !.rebootNeeded = TRUE]

\* (4) a current value that differs from the desired one asks for an update,
\* whatever is staged for the next boot.
ValidateParameter_CurrentDecides(acc, parameter, desiredValue, nvConfig, advancedPciSettingsEnabled) ==
    LET foundInCurrent == Has(nvConfig.CurrentConfig, parameter)
        foundInNextBoot == Has(nvConfig.NextBootConfig, parameter)
    IN IF advancedPciSettingsEnabled /\ ~foundInCurrent
       THEN [configUpdateNeeded |-> FALSE, rebootNeeded |-> FALSE, err |-> "spec"]
       ELSE IF /\ foundInNextBoot /\ nvConfig.NextBootConfig[parameter] = desiredValue
               /\ foundInCurrent /\ nvConfig.CurrentConfig[parameter] = desiredValue
       THEN acc
       ELSE [acc EXCEPT !.configUpdateNeeded = TRUE, !.rebootNeeded = TRUE]

\* One pass of the loop body (host.go:167-182) over `parameter`; acc holds
\* configUpdateNeeded, rebootNeeded and err as the loop has them so far.
ValidateParameter(acc, parameter, desiredValue, nvConfig, advancedPciSettingsEnabled) ==
    LET foundInCurrent == Has(nvConfig.CurrentConfig, parameter)
        foundInNextBoot == Has(nvConfig.NextBootConfig, parameter)
    IN IF advancedPciSettingsEnabled /\ ~foundInCurrent
       THEN [configUpdateNeeded |-> FALSE, rebootNeeded |-> FALSE, err |-> "spec"]
       ELSE IF foundInNextBoot /\ nvConfig.NextBootConfig[parameter] = desiredValue
       THEN IF ~foundInCurrent \/ nvConfig.CurrentConfig[parameter] # desiredValue
            THEN [acc EXCEPT !.rebootNeeded = TRUE]
            ELSE acc
       ELSE [acc EXCEPT !.configUpdateNeeded = TRUE, !.rebootNeeded = TRUE]

\* The range loop over desiredConfig, visiting the keys in the order `seq`;
\* it returns from the first pass that raises an error.
RECURSIVE ValidateLoop(_, _, _, _, _)
ValidateLoop(seq, acc, desiredConfig, nvConfig, advancedPciSettingsEnabled) ==
    IF seq = <<>> THEN acc
    ELSE LET next == ValidateParameter(acc, Head(seq), desiredConfig[Head(seq)],
                                       nvConfig, advancedPciSettingsEnabled)
         IN IF next.err # "nil" THEN next
            ELSE ValidateLoop(Tail(seq), next, desiredConfig, nvConfig,
                              advancedPciSettingsEnabled)

\* Mutant of ValidateDeviceNvSpec: the reset-to-default branch resets the NV
\* config instead of only checking it.
ValidateDeviceNvSpec_ResetsOnCheck(dev, h, failAt, order) ==
    LET nvConfig == QueryNvConfig(h)
        none == [configUpdateNeeded |-> FALSE, rebootNeeded |-> FALSE, err |-> "nil"]
        built == ConstructNvParamMapFromTemplate(dev, nvConfig.DefaultConfig)
        resets == failAt # 1 /\ dev.ResetToDefault
        res == IF failAt = 1 THEN [none EXCEPT !.err = "host"]
               ELSE IF dev.ResetToDefault THEN ValidateResetToDefault(nvConfig)
               ELSE IF built.err # "nil" THEN [none EXCEPT !.err = built.err]
               ELSE ValidateLoop(RangeOver(order, built.desiredConfig), none,
                                 built.desiredConfig, nvConfig,
                                 AdvancedPCISettingsEnabled(nvConfig.CurrentConfig))
    IN [configUpdateNeeded |-> res.configUpdateNeeded,
        rebootNeeded |-> res.rebootNeeded,
        err |-> res.err,
        calls |-> IF resets THEN << <<"QueryNvConfig">>, <<"ResetNvConfig">> >>
                  ELSE << <<"QueryNvConfig">> >>,
        host |-> IF resets THEN ResetNvConfig(h) ELSE h]

\* The whole call.  failAt is the index of the host call that fails (0: none);
\* order is the iteration order of the range loop.
ValidateDeviceNvSpec(dev, h, failAt, order) ==
    LET calls == << <<"QueryNvConfig">> >>
        nvConfig == QueryNvConfig(h)
        none == [configUpdateNeeded |-> FALSE, rebootNeeded |-> FALSE, err |-> "nil"]
        built == ConstructNvParamMapFromTemplate(dev, nvConfig.DefaultConfig)
        res == IF failAt = 1 THEN [none EXCEPT !.err = "host"]
               ELSE IF dev.ResetToDefault THEN ValidateResetToDefault(nvConfig)
               ELSE IF built.err # "nil" THEN [none EXCEPT !.err = built.err]
               ELSE ValidateLoop(RangeOver(order, built.desiredConfig), none,
                                 built.desiredConfig, nvConfig,
                                 AdvancedPCISettingsEnabled(nvConfig.CurrentConfig))
    IN [configUpdateNeeded |-> res.configUpdateNeeded,
        rebootNeeded |-> res.rebootNeeded,
        err |-> res.err,
        calls |-> calls,
        host |-> h]

----------------------------------------------------------------------------
(* hostManager.ApplyDeviceNvSpec                                           *)

SetGate == <<"SetNvConfigParameter", AdvancedPCISettingsParam, NvParamTrue>>

\* Mutant of ApplyResetToDefault: the gate is not re-enabled after the reset.
ApplyResetToDefault_GateLeftOff(h, failAt) ==
    IF failAt = 1
    THEN [rebootNeeded |-> FALSE, err |-> "host", host |-> h,
          calls |-> << <<"ResetNvConfig">> >>]
    ELSE [rebootNeeded |-> TRUE, err |-> "nil", host |-> ResetNvConfig(h),
          calls |-> << <<"ResetNvConfig">> >>]

\* The reset-to-default branch (host.go:196-211).
ApplyResetToDefault(h, failAt) ==
    LET h1 == ResetNvConfig(h)
        h2 == SetNvConfigParameter(h1, AdvancedPCISettingsParam, NvParamTrue)
    IN IF failAt = 1
       THEN [rebootNeeded |-> FALSE, err |-> "host", host |-> h,
             calls |-> << <<"ResetNvConfig">> >>]
       ELSE IF failAt = 2
       THEN [rebootNeeded |-> FALSE, err |-> "host", host |-> h1,
             calls |-> << <<"ResetNvConfig">>, SetGate >>]
       ELSE [rebootNeeded |-> TRUE, err |-> "nil", host |-> h2,
             calls |-> << <<"ResetNvConfig">>, SetGate >>]

\* Mutant of Bootstrap: the second query's result is dropped and the call
\* goes on with the first snapshot.
Bootstrap_StaleSnapshot(h, failAt) ==
    LET first == QueryNvConfig(h)
        h1 == SetNvConfigParameter(h, AdvancedPCISettingsParam, NvParamTrue)
        h2 == ResetNicFirmware(h1)
        q == <<"QueryNvConfig">>
    IN IF failAt = 1
       THEN [err |-> "host", host |-> h, calls |-> <<q>>, nvConfig |-> first]
       ELSE IF AdvancedPCISettingsEnabled(first.CurrentConfig)
       THEN [err |-> "nil", host |-> h, calls |-> <<q>>, nvConfig |-> first]
       ELSE IF failAt = 2
       THEN [err |-> "host", host |-> h, calls |-> <<q, SetGate>>, nvConfig |-> first]
       ELSE IF failAt = 3
       THEN [err |-> "host", host |-> h1,
             calls |-> <<q, SetGate, <<"ResetNicFirmware">> >>, nvConfig |-> first]
       ELSE IF failAt = 4
       THEN [err |-> "host", host |-> h2,
             calls |-> <<q, SetGate, <<"ResetNicFirmware">>, q>>, nvConfig |-> first]
       ELSE [err |-> "nil", host |-> h2,
             calls |-> <<q, SetGate, <<"ResetNicFirmware">>, q>>,
             nvConfig |-> first]

\* The bootstrap (host.go:213-239): the first query and, with the gate not
\* enabled in it, the gate write, the firmware reset and the second query.
\* nvConfig is the snapshot the rest of the call works on.
Bootstrap(h, failAt) ==
    LET first == QueryNvConfig(h)
        h1 == SetNvConfigParameter(h, AdvancedPCISettingsParam, NvParamTrue)
        h2 == ResetNicFirmware(h1)
        q == <<"QueryNvConfig">>
    IN IF failAt = 1
       THEN [err |-> "host", host |-> h, calls |-> <<q>>, nvConfig |-> first]
       ELSE IF AdvancedPCISettingsEnabled(first.CurrentConfig)
       THEN [err |-> "nil", host |-> h, calls |-> <<q>>, nvConfig |-> first]
       ELSE IF failAt = 2
       THEN [err |-> "host", host |-> h, calls |-> <<q, SetGate>>, nvConfig |-> first]
       ELSE IF failAt = 3
       THEN [err |-> "host", host |-> h1,
             calls |-> <<q, SetGate, <<"ResetNicFirmware">> >>, nvConfig |-> first]
       ELSE IF failAt = 4
       THEN [err |-> "host", host |-> h2,
             calls |-> <<q, SetGate, <<"ResetNicFirmware">>, q>>, nvConfig |-> first]
       ELSE [err |-> "nil", host |-> h2,
             calls |-> <<q, SetGate, <<"ResetNicFirmware">>, q>>,
             nvConfig |-> QueryNvConfig(h2)]

\* Mutants of DiffParameter.  (1) a parameter absent from NextBootConfig is
\* written instead of refused.
DiffParameter_AbsentWritten(acc, param, value, nvConfig) ==
    IF ~Has(nvConfig.NextBootConfig, param) \/ nvConfig.NextBootConfig[param] # value
    THEN [acc EXCEPT !.paramsToApply = (param :> value) @@ @]
    ELSE acc

\* (2) every desired parameter is written, staged already or not.
DiffParameter_AlwaysWritten(acc, param, value, nvConfig) ==
    IF ~Has(nvConfig.NextBootConfig, param)
    THEN [acc EXCEPT !.err = "spec"]
    ELSE [acc EXCEPT !.paramsToApply = (param :> value) @@ @]

\* One pass of the diff loop body (host.go:250-259) over `param`; acc holds
\* paramsToApply and err as the loop has them so far.
DiffParameter(acc, param, value, nvConfig) ==
    IF ~Has(nvConfig.NextBootConfig, param)
    THEN [acc EXCEPT !.err = "spec"]
    ELSE IF nvConfig.NextBootConfig[param] # value
    THEN [acc EXCEPT !.paramsToApply = (param :> value) @@ @]
    ELSE acc

\* The range loop over desiredConfig (host.go:249-260), keys in the order seq.
RECURSIVE DiffLoop(_, _, _, _)
DiffLoop(seq, acc, desiredConfig, nvConfig) ==
    IF seq = <<>> THEN acc
    ELSE LET next == DiffParameter(acc, Head(seq), desiredConfig[Head(seq)], nvConfig)
         IN IF next.err # "nil" THEN next
            ELSE DiffLoop(Tail(seq), next, desiredConfig, nvConfig)

\* Mutant of WriteLoop: the loop ends, without error, after its first write.
WriteLoop_FirstOnly(seq, paramsToApply, h, calls, failAt) ==
    IF seq = <<>> THEN [err |-> "nil", host |-> h, calls |-> calls]
    ELSE LET param == Head(seq)
             value == paramsToApply[param]
             issued == Append(calls, <<"SetNvConfigParameter", param, value>>)
         IN IF failAt = Len(issued)
            THEN [err |-> "host", host |-> h, calls |-> issued]
            ELSE [err |-> "nil", host |-> SetNvConfigParameter(h, param, value),
                  calls |-> issued]

\* Mutant of WriteLoop: the writes take effect together once all of them have
\* succeeded; a failure leaves the NV state as the loop found it.
RECURSIVE WriteLoop_RollsBack(_, _, _, _, _)
WriteLoop_RollsBack(seq, paramsToApply, h, calls, failAt) ==
    IF seq = <<>>
    THEN [err |-> "nil", calls |-> calls,
          host |-> [h EXCEPT !.NextBootConfig = paramsToApply @@ @]]
    ELSE LET param == Head(seq)
             value == paramsToApply[param]
             issued == Append(calls, <<"SetNvConfigParameter", param, value>>)
         IN IF failAt = Len(issued)
            THEN [err |-> "host", host |-> h, calls |-> issued]
            ELSE WriteLoop_RollsBack(Tail(seq), paramsToApply, h, issued, failAt)

\* The range loop over paramsToApply (host.go:264-270), keys in the order seq:
\* one SetNvConfigParameter per key, returning at the first that fails.
RECURSIVE WriteLoop(_, _, _, _, _)
WriteLoop(seq, paramsToApply, h, calls, failAt) ==
    IF seq = <<>> THEN [err |-> "nil", host |-> h, calls |-> calls]
    ELSE LET param == Head(seq)
             value == paramsToApply[param]
             issued == Append(calls, <<"SetNvConfigParameter", param, value>>)
         IN IF failAt = Len(issued)
            THEN [err |-> "host", host |-> h, calls |-> issued]
            ELSE WriteLoop(Tail(seq), paramsToApply,
                           SetNvConfigParameter(h, param, value), issued, failAt)

\* Mutant of DiffAndWrite: reboot is reported only when something was written.
DiffAndWrite_RebootOnlyIfWritten(dev, boot, failAt, order, writeOrder) ==
    LET built == ConstructNvParamMapFromTemplate(dev, boot.nvConfig.DefaultConfig)
        diff == DiffLoop(RangeOver(order, built.desiredConfig),
                         [paramsToApply |-> <<>>, err |-> "nil"],
                         built.desiredConfig, boot.nvConfig)
        wrote == WriteLoop(RangeOver(writeOrder, diff.paramsToApply),
                           diff.paramsToApply, boot.host, boot.calls, failAt)
        stop(e) == [rebootNeeded |-> FALSE, err |-> e, host |-> boot.host,
                    calls |-> boot.calls, nvConfig |-> boot.nvConfig,
                    phase |-> "diff", paramsToApply |-> <<>>]
    IN IF built.err # "nil" THEN stop(built.err)
       ELSE IF diff.err # "nil" THEN stop(diff.err)
       ELSE [rebootNeeded |-> wrote.err = "nil" /\ diff.paramsToApply # <<>>,
             err |-> wrote.err,
             host |-> wrote.host, calls |-> wrote.calls,
             nvConfig |-> boot.nvConfig, phase |-> "write",
             paramsToApply |-> diff.paramsToApply]

\* Mutant of DiffAndWrite: one loop that diffs and writes, so the parameters
\* met before an absent one are written before the spec error is returned.
DiffAndWrite_WritesBeforeError(dev, boot, failAt, order, writeOrder) ==
    LET built == ConstructNvParamMapFromTemplate(dev, boot.nvConfig.DefaultConfig)
        diff == DiffLoop(RangeOver(order, built.desiredConfig),
                         [paramsToApply |-> <<>>, err |-> "nil"],
                         built.desiredConfig, boot.nvConfig)
        wrote == WriteLoop(RangeOver(writeOrder, diff.paramsToApply),
                           diff.paramsToApply, boot.host, boot.calls, failAt)
    IN IF built.err # "nil"
       THEN [rebootNeeded |-> FALSE, err |-> built.err, host |-> boot.host,
             calls |-> boot.calls, nvConfig |-> boot.nvConfig,
             phase |-> "diff", paramsToApply |-> <<>>]
       ELSE IF diff.err # "nil" /\ wrote.err = "nil"
       THEN [rebootNeeded |-> FALSE, err |-> diff.err, host |-> wrote.host,
             calls |-> wrote.calls, nvConfig |-> boot.nvConfig,
             phase |-> "diff", paramsToApply |-> <<>>]
       ELSE [rebootNeeded |-> wrote.err = "nil", err |-> wrote.err,
             host |-> wrote.host, calls |-> wrote.calls,
             nvConfig |-> boot.nvConfig, phase |-> "write",
             paramsToApply |-> diff.paramsToApply]

\* The normal path after the bootstrap (host.go:241-274).
DiffAndWrite(dev, boot, failAt, order, writeOrder) ==
    LET built == ConstructNvParamMapFromTemplate(dev, boot.nvConfig.DefaultConfig)
        diff == DiffLoop(RangeOver(order, built.desiredConfig),
                         [paramsToApply |-> <<>>, err |-> "nil"],
                         built.desiredConfig, boot.nvConfig)
        wrote == WriteLoop(RangeOver(writeOrder, diff.paramsToApply),
                           diff.paramsToApply, boot.host, boot.calls, failAt)
        stop(e) == [rebootNeeded |-> FALSE, err |-> e, host |-> boot.host,
                    calls |-> boot.calls, nvConfig |-> boot.nvConfig,
                    phase |-> "diff", paramsToApply |-> <<>>]
    IN IF built.err # "nil" THEN stop(built.err)
       ELSE IF diff.err # "nil" THEN stop(diff.err)
       ELSE [rebootNeeded |-> wrote.err = "nil", err |-> wrote.err,
             host |-> wrote.host, calls |-> wrote.calls,
             nvConfig |-> boot.nvConfig, phase |-> "write",
             paramsToApply |-> diff.paramsToApply]

\* The whole call.  failAt is the index of the host call that fails (0: none);
\* order and writeOrder are the iteration orders of the two range loops.  The
\* bootstrap's outcome is bound once (b) for the rest of the call.
ApplyDeviceNvSpec(dev, h, failAt, order, writeOrder) ==
    LET reset == ApplyResetToDefault(h, failAt)
        boot == Bootstrap(h, failAt)
    IN IF dev.ResetToDefault
       THEN [rebootNeeded |-> reset.rebootNeeded, err |-> reset.err,
             host |-> reset.host, calls |-> reset.calls,
             nvConfig |-> QueryNvConfig(h), phase |-> "reset",
             paramsToApply |-> <<>>]
       ELSE IF boot.err # "nil"
       THEN [rebootNeeded |-> FALSE, err |-> boot.err, host |-> boot.host,
             calls |-> boot.calls, nvConfig |-> boot.nvConfig,
             phase |-> "bootstrap", paramsToApply |-> <<>>]
       ELSE CHOOSE r \in {DiffAndWrite(dev, b, failAt, order, writeOrder) :
                               b \in {boot}} : TRUE

----------------------------------------------------------------------------
(* hostManager.ApplyDeviceRuntimeSpec                                      *)

\* The runtime values a port can have, and the ones a template can ask for.
ReadRequestSizes == {512, 4096}
TrustModes == {"pcp", "dscp"}
PfcMaps == {"0,0,0,0,0,0,0,0", "0,0,0,1,0,0,0,0"}
\* Discovery puts no limit on the ports of a record: one more than the two
\* the runtime code looks at is explored as well.
PortCounts == {1, 2, 3}

\* d.spec holds the desired values as the device's template gives them.
CalculateDesiredRuntimeConfig(d) ==
    [maxReadReqSize |-> d.spec.maxReadReqSize,
     trust |-> d.spec.trust,
     pfc |-> d.spec.pfc]

\* Whether the live runtime settings of every port match the desired ones;
\* a failing read reports (false, error).
RuntimeConfigApplied(d, readFails) ==
    LET want == CalculateDesiredRuntimeConfig(d)
    IN IF readFails THEN [applied |-> FALSE, err |-> "host"]
       ELSE [applied |->
               /\ want.maxReadReqSize # 0 =>
                    \A i \in 1..d.ports : d.mrrs[i] = want.maxReadReqSize
               /\ \A i \in 1..d.ports :
                    d.qos[i] = <<want.trust, want.pfc>>,
             err |-> "nil"]

\* RuntimeCalls_FirstPortAlways: the request size of the first port is set
\* whatever the desired size.
RuntimeCalls_FirstPortAlways(d, want) ==
    << <<"SetMaxReadRequestSize", 1, want.maxReadReqSize>> >>
    \o (IF d.ports = 2 /\ want.maxReadReqSize # 0
        THEN << <<"SetMaxReadRequestSize", 2, want.maxReadReqSize>> >>
        ELSE <<>>)
    \o << <<"SetTrustAndPFC", 1, want.trust, want.pfc>> >>
    \o (IF d.ports = 2
        THEN << <<"SetTrustAndPFC", 2, want.trust, want.pfc>> >>
        ELSE <<>>)

\* The calls of host.go:296-322 in the order the code issues them, when none
\* fails; ports are numbered from 1 here (ports[0] is port 1).
RuntimeCalls(d, want) ==
    (IF want.maxReadReqSize # 0
     THEN << <<"SetMaxReadRequestSize", 1, want.maxReadReqSize>> >>
          \o (IF d.ports = 2
              THEN << <<"SetMaxReadRequestSize", 2, want.maxReadReqSize>> >>
              ELSE <<>>)
     ELSE <<>>)
    \o << <<"SetTrustAndPFC", 1, want.trust, want.pfc>> >>
    \o (IF d.ports = 2
        THEN << <<"SetTrustAndPFC", 2, want.trust, want.pfc>> >>
        ELSE <<>>)

\* The effect of one successful runtime call on the live settings.
RuntimeEffect(d, call) ==
    IF call[1] = "SetMaxReadRequestSize"
    THEN [d EXCEPT !.mrrs[call[2]] = call[3]]
    ELSE [d EXCEPT !.qos[call[2]] = <<call[3], call[4]>>]

RECURSIVE RuntimeRun(_, _, _, _)
RuntimeRun(d, todo, issued, failAt) ==
    IF todo = <<>> THEN [err |-> "nil", calls |-> issued, after |-> d]
    ELSE IF failAt = Len(issued) + 1
    THEN [err |-> "host", calls |-> Append(issued, Head(todo)), after |-> d]
    ELSE RuntimeRun(RuntimeEffect(d, Head(todo)), Tail(todo),
                    Append(issued, Head(todo)), failAt)

\* Mutant of ApplyDeviceRuntimeSpec: the settings are applied whatever the
\* runtime-config check reports.
ApplyDeviceRuntimeSpec_Unchecked(d, readFails, failAt) ==
    LET check == RuntimeConfigApplied(d, readFails)
        want == CalculateDesiredRuntimeConfig(d)
    IN [alreadyApplied |-> check.applied, checkErr |-> check.err]
       @@ RuntimeRun(d, RuntimeCalls(d, want), <<>>, failAt)

\* The whole call.  readFails: the runtime-config check fails; failAt: the
\* index of the Set... call that fails (0: none).
ApplyDeviceRuntimeSpec(d, readFails, failAt) ==
    LET check == RuntimeConfigApplied(d, readFails)
        want == CalculateDesiredRuntimeConfig(d)
    IN IF check.applied
       THEN [err |-> "nil", calls |-> <<>>, after |-> d,
             alreadyApplied |-> TRUE, checkErr |-> check.err]
       ELSE [alreadyApplied |-> FALSE, checkErr |-> check.err]
            @@ RuntimeRun(d, RuntimeCalls(d, want), <<>>, failAt)

----------------------------------------------------------------------------
(* State machine.                                                          *)

\* The runtime side of a device: its ports, their live settings, the desired
\* values of its template.
RtDevices ==
    UNION {[ports : {n}, mrrs : [1..n -> ReadRequestSizes],
            qos : [1..n -> TrustModes \X PfcMaps],
            spec : [maxReadReqSize : {0} \cup ReadRequestSizes,
                    trust : TrustModes, pfc : PfcMaps]] : n \in PortCounts}

NoRtOp == [op |-> "none", pre |-> <<>>, err |-> "nil", calls |-> <<>>,
           alreadyApplied |-> FALSE, checkErr |-> "nil"]

NoRt == [dev |-> <<>>, last |-> NoRtOp]

\* No discovery has run and no PCI enumeration is under study.
NoDisc == [pci |-> <<>>, listErr |-> FALSE, op |-> "none", err |-> "nil",
           isNil |-> FALSE, devices |-> <<>>, calls |-> <<>>]

\* No call is in flight.
NoConc == <<>>

\* What QueryNvConfig can report of the gate: a device without the gate has
\* it in no map; otherwise its factory value is false.
GateStates ==
    {<< <<>>, <<>>, <<>> >>}
    \cup {<<AdvancedPCISettingsParam :> c, AdvancedPCISettingsParam :> n,
            AdvancedPCISettingsParam :> NvParamFalse>> :
            c \in {NvParamFalse, NvParamTrue}, n \in {NvParamFalse, NvParamTrue}}

\* The factory value of every other parameter is "0": the code compares the
\* values of a parameter only with each other, so renaming them loses nothing.
Hosts ==
    {[CurrentConfig  |-> x[1][1] @@ x[2],
      NextBootConfig |-> x[1][2] @@ x[3],
      DefaultConfig  |-> x[1][3] @@ [p \in x[4] |-> NvParamFalse],
      hidden         |-> x[5]] :
        x \in {y \in GateStates \X Maps(TemplateParams) \X Maps(TemplateParams)
                     \X (SUBSET TemplateParams) \X (SUBSET TemplateParams) :
                 y[5] \cap (DOMAIN y[2] \cup DOMAIN y[3] \cup y[4]) = {}}}

\* With ResetToDefault set no operation reads the template.
Devices ==
    [ResetToDefault : {FALSE}, Template : Maps(TemplateParams)]
    \cup {[ResetToDefault |-> TRUE, Template |-> <<>>]}

NoOp == [op |-> "none", pre |-> <<>>, configUpdateNeeded |-> FALSE,
         rebootNeeded |-> FALSE, err |-> "nil", calls |-> <<>>,
         nvConfig |-> <<>>, phase |-> "none", paramsToApply |-> <<>>,
         after |-> "other"]

Init ==
    /\ host \in Hosts
    /\ device \in Devices
    /\ last = NoOp
    /\ rt = NoRt
    /\ disc = NoDisc
    /\ conc = NoConc

\* What a call keeps of the operation that ran right before it: whether it
\* was an ApplyDeviceNvSpec that returned no error and, if so, whether that
\* call wrote a parameter of the template; or whether it was the reboot that
\* followed such a call.
After ==
    IF last.op = "Apply" /\ last.err = "nil"
    THEN IF \E i \in DOMAIN last.calls :
              /\ last.calls[i][1] = "SetNvConfigParameter"
              /\ last.calls[i][2] \in TemplateParams
         THEN "applyWrote"
         ELSE "apply"
    ELSE IF last.op = "Reboot" /\ last.after \in {"apply", "applyWrote"}
         THEN "applyRebooted"
         ELSE "other"

Validate ==
    \E failAt \in 0..1, order \in Orders :
        \E r \in {ValidateDeviceNvSpec(device, host, failAt, order)} :
           /\ host' = r.host
           /\ last' = [NoOp EXCEPT !.op = "Validate", !.pre = host,
                         !.configUpdateNeeded = r.configUpdateNeeded,
                         !.rebootNeeded = r.rebootNeeded, !.err = r.err,
                         !.calls = r.calls, !.nvConfig = QueryNvConfig(host),
                         !.after = After]
           /\ UNCHANGED <<device, rt, disc, conc>>

\* Any one of the host calls the failure-free run issues may be the one
\* that fails.
Apply ==
    \E order \in Orders, writeOrder \in Orders :
      \E ok \in {ApplyDeviceNvSpec(device, host, 0, order, writeOrder)} :
        \E failAt \in 0..Len(ok.calls) :
          \E r \in {ApplyDeviceNvSpec(device, host, failAt, order, writeOrder)} :
            /\ host' = r.host
            /\ last' = [NoOp EXCEPT !.op = "Apply", !.pre = host,
                          !.rebootNeeded = r.rebootNeeded, !.err = r.err,
                          !.calls = r.calls, !.nvConfig = r.nvConfig,
                          !.phase = r.phase, !.paramsToApply = r.paramsToApply,
                          !.after = After]
            /\ UNCHANGED <<device, rt, disc, conc>>

\* A pass of ApplyDeviceNvSpec in which no host call fails.
ApplyOk ==
    \E order \in Orders, writeOrder \in Orders :
      \E r \in {ApplyDeviceNvSpec(device, host, 0, order, writeOrder)} :
        /\ host' = r.host
        /\ last' = [NoOp EXCEPT !.op = "Apply", !.pre = host,
                      !.rebootNeeded = r.rebootNeeded, !.err = r.err,
                      !.calls = r.calls, !.nvConfig = r.nvConfig,
                      !.phase = r.phase, !.paramsToApply = r.paramsToApply,
                      !.after = After]
        /\ UNCHANGED <<device, rt, disc, conc>>

\* The node reboots (outside the manager): the staged values become active.
Reboot ==
    /\ last.op # "Reboot"
    /\ host' = Activate(host)
    /\ last' = [NoOp EXCEPT !.op = "Reboot", !.pre = host, !.after = After]
    /\ UNCHANGED <<device, rt, disc, conc>>

Next == Validate \/ Apply \/ Reboot

Spec == Init /\ [][Next]_vars

\* The reconcile loop re-drives ApplyDeviceNvSpec with an unchanged spec; host
\* calls may fail, but not in every pass for ever.
\* ApplyDeviceNvSpec reads CurrentConfig for the gate only, so the current
\* values of the template's parameters are taken to be the staged ones.
InitRedrive ==
    /\ host \in {h \in Hosts :
                   \A p \in TemplateParams :
                       /\ Has(h.CurrentConfig, p) <=> Has(h.NextBootConfig, p)
                       /\ Has(h.CurrentConfig, p) =>
                              h.CurrentConfig[p] = h.NextBootConfig[p]}
    /\ device \in {d \in Devices : ~d.ResetToDefault}
    /\ last = NoOp
    /\ rt = NoRt
    /\ disc = NoDisc
    /\ conc = NoConc

NextRedrive == Apply

SpecRedrive == InitRedrive /\ [][NextRedrive]_vars /\ WF_vars(ApplyOk)

\* The runtime operation, on a device whose NV side stays as it is.
InitRuntime ==
    /\ host = [CurrentConfig |-> <<>>, NextBootConfig |-> <<>>,
               DefaultConfig |-> <<>>, hidden |-> {}]
    /\ device = [ResetToDefault |-> FALSE, Template |-> <<>>]
    /\ last = NoOp
    /\ rt \in [dev : RtDevices, last : {NoRtOp}]
    /\ disc = NoDisc
    /\ conc = NoConc

ApplyRuntime ==
    \E readFails \in BOOLEAN :
      \E ok \in {ApplyDeviceRuntimeSpec(rt.dev, readFails, 0)} :
        \E failAt \in 0..Len(ok.calls) :
          \E r \in {ApplyDeviceRuntimeSpec(rt.dev, readFails, failAt)} :
            /\ rt' = [dev |-> r.after,
                      last |-> [op |-> "ApplyRuntime", pre |-> rt.dev,
                                err |-> r.err, calls |-> r.calls,
                                alreadyApplied |-> r.alreadyApplied,
                                checkErr |-> r.checkErr]]
            /\ UNCHANGED <<host, device, last, disc, conc>>

\* The live runtime settings of a port change outside the manager.
RuntimeDrift ==
    /\ rt.last.op # "Drift"
    /\ \E i \in 1..rt.dev.ports, size \in ReadRequestSizes :
         rt' = [dev |-> [rt.dev EXCEPT !.mrrs[i] = size],
                last |-> [NoRtOp EXCEPT !.op = "Drift", !.pre = rt.dev]]
    /\ UNCHANGED <<host, device, last, disc, conc>>

NextRuntime == ApplyRuntime \/ RuntimeDrift

SpecRuntime == InitRuntime /\ [][NextRuntime]_vars

----------------------------------------------------------------------------
(* Properties of ValidateDeviceNvSpec.                                     *)

\* The last operation was a ValidateDeviceNvSpec on the normal path that
\* returned no error; its desired config is then the template's.
ValidateReturned ==
    last.op = "Validate" /\ ~device.ResetToDefault /\ last.err = "nil"

desiredConfig == device.Template

CurrentMatches(nvConfig, p) ==
    Has(nvConfig.CurrentConfig, p) /\ nvConfig.CurrentConfig[p] = desiredConfig[p]

NextBootMatches(nvConfig, p) ==
    Has(nvConfig.NextBootConfig, p) /\ nvConfig.NextBootConfig[p] = desiredConfig[p]

\* C1 as the spec states it: Validate returns (false, false) iff every desired
\* parameter's current value equals its desired value.
C1_AsStated ==
    ValidateReturned =>
        ((~last.configUpdateNeeded /\ ~last.rebootNeeded)
         <=> \A p \in DOMAIN desiredConfig : CurrentMatches(last.nvConfig, p))

\* C1, amended: Validate returns (false, false) iff every desired parameter's
\* current value AND next-boot value both equal its desired value.
C1_FullyMatched ==
    ValidateReturned =>
        ((~last.configUpdateNeeded /\ ~last.rebootNeeded)
         <=> \A p \in DOMAIN desiredConfig :
                CurrentMatches(last.nvConfig, p) /\ NextBootMatches(last.nvConfig, p))

\* Validate answered (false, false) for a template naming every parameter.
C1_Witness ==
    /\ ValidateReturned
    /\ DOMAIN desiredConfig = TemplateParams
    /\ ~last.configUpdateNeeded /\ ~last.rebootNeeded

\* C2: Validate returns (false, true) iff every desired parameter's next-boot
\* value equals desired and at least one current value differs or is absent.
C2_PendingReboot ==
    ValidateReturned =>
        ((~last.configUpdateNeeded /\ last.rebootNeeded)
         <=> /\ \A p \in DOMAIN desiredConfig : NextBootMatches(last.nvConfig, p)
             /\ \E p \in DOMAIN desiredConfig : ~CurrentMatches(last.nvConfig, p))

\* The spec's scenario: Current={P1:"0"}, NextBoot={P1:"1"}, desired={P1:"1"}
\* gives (false, true).
C2_Witness ==
    /\ ValidateReturned
    /\ desiredConfig = ("P1" :> "1")
    /\ Has(host.CurrentConfig, "P1") /\ host.CurrentConfig["P1"] = "0"
    /\ Has(host.NextBootConfig, "P1") /\ host.NextBootConfig["P1"] = "1"
    /\ ~last.configUpdateNeeded /\ last.rebootNeeded

\* C3: Validate returns (true, true) iff at least one desired parameter's
\* next-boot value differs from desired or is absent, and every iteration
\* order of the desired parameters gives the result this call gave.
C3_UpdateNeeded ==
    ValidateReturned =>
        /\ (last.configUpdateNeeded /\ last.rebootNeeded)
           <=> \E p \in DOMAIN desiredConfig : ~NextBootMatches(last.nvConfig, p)
        /\ \A order \in Orders :
             LET r == ValidateDeviceNvSpec(device, last.pre, 0, order)
             IN /\ r.configUpdateNeeded = last.configUpdateNeeded
                /\ r.rebootNeeded = last.rebootNeeded
                /\ r.err = last.err

\* (true, true) with one desired parameter staged and the other one not.
C3_Witness ==
    /\ ValidateReturned
    /\ DOMAIN desiredConfig = TemplateParams
    /\ \E p \in TemplateParams : NextBootMatches(last.nvConfig, p)
    /\ \E p \in TemplateParams : ~NextBootMatches(last.nvConfig, p)
    /\ last.configUpdateNeeded /\ last.rebootNeeded

\* The calls that change the device's NV state.
Mutating(call) ==
    call[1] \in {"SetNvConfigParameter", "ResetNvConfig", "ResetNicFirmware"}

NoMutatingCall == \A i \in DOMAIN last.calls : ~Mutating(last.calls[i])

\* The gate is enabled in the queried CurrentConfig and a parameter of the
\* template is absent from it; no host call failed.
GateOnParamMissing ==
    /\ ~device.ResetToDefault
    /\ last.err # "host"
    /\ AdvancedPCISettingsEnabled(last.pre.CurrentConfig)
    /\ \E p \in DOMAIN device.Template : ~Has(last.pre.CurrentConfig, p)

\* C4 as the spec states it: with the gate enabled and a desired parameter
\* absent from CurrentConfig, Validate and Apply both return a spec error and
\* issue no mutating call, whatever NextBootConfig holds.
C4_AsStated ==
    (last.op \in {"Validate", "Apply"} /\ GateOnParamMissing) =>
        (last.err = "spec" /\ NoMutatingCall)

\* C4, amended: in that case Validate returns a spec error and issues no
\* mutating call; Apply returns a spec error exactly when the desired map
\* cannot be built or a desired parameter is absent from NextBootConfig, and
\* then it has issued no mutating call.
C4_UnsupportedParameter ==
    /\ (last.op = "Validate" /\ GateOnParamMissing) =>
           (last.err = "spec" /\ NoMutatingCall)
    /\ (last.op = "Apply" /\ GateOnParamMissing) =>
           /\ last.err = "spec"
                <=> \E p \in DOMAIN device.Template :
                       \/ ~Has(last.pre.DefaultConfig, p)
                       \/ ~Has(last.pre.NextBootConfig, p)
           /\ last.err = "spec" => NoMutatingCall

\* Apply refused a parameter that both maps lack although the default
\* config has it.
C4_Witness ==
    /\ last.op = "Apply" /\ GateOnParamMissing
    /\ \E p \in DOMAIN device.Template :
         /\ Has(last.pre.DefaultConfig, p)
         /\ ~Has(last.pre.CurrentConfig, p)
         /\ ~Has(last.pre.NextBootConfig, p)
    /\ \A p \in DOMAIN device.Template : Has(last.pre.DefaultConfig, p)
    /\ last.err = "spec"

----------------------------------------------------------------------------
(* Properties of ApplyDeviceNvSpec.                                        *)

WritesNothing ==
    \A i \in DOMAIN last.calls : last.calls[i][1] # "SetNvConfigParameter"

\* C5 as the spec states it: an Apply that follows a successful Apply, with
\* nothing in between, issues no SetNvConfigParameter - on either path.
C5_AsStated ==
    (last.op = "Apply" /\ last.after \in {"apply", "applyWrote"}) => WritesNothing

\* C5, amended: on the normal path an Apply that follows a successful Apply,
\* with nothing in between, issues no SetNvConfigParameter.
C5_Idempotent ==
    (last.op = "Apply" /\ last.after \in {"apply", "applyWrote"}
       /\ ~device.ResetToDefault)
        => WritesNothing

\* A second Apply right after one that wrote a parameter of the template.
C5_Witness ==
    /\ last.op = "Apply" /\ last.after = "applyWrote"
    /\ ~device.ResetToDefault
    /\ last.err = "nil"
    /\ last.calls = << <<"QueryNvConfig">> >>

\* C6: on the normal path, an Apply that reaches the write phase and has no
\* failing write returns (true, nil), also with an empty write set.
C6_RebootAfterWritePhase ==
    (last.op = "Apply" /\ ~device.ResetToDefault /\ last.phase = "write"
       /\ last.err # "host")
        => (last.rebootNeeded /\ last.err = "nil")

\* The spec's scenario: Current={P1:"0"}, NextBoot={P1:"1"}, desired={P1:"1"};
\* the write set is empty and the call returns (true, nil).
C6_Witness ==
    /\ last.op = "Apply" /\ ~device.ResetToDefault
    /\ desiredConfig = ("P1" :> "1")
    /\ Has(last.pre.CurrentConfig, "P1") /\ last.pre.CurrentConfig["P1"] = "0"
    /\ Has(last.pre.NextBootConfig, "P1") /\ last.pre.NextBootConfig["P1"] = "1"
    /\ last.phase = "write" /\ last.paramsToApply = <<>>
    /\ WritesNothing
    /\ last.rebootNeeded /\ last.err = "nil"

IsPrefix(s, t) == Len(s) <= Len(t) /\ s = SubSeq(t, 1, Len(s))

ResetSequence == << <<"ResetNvConfig">>, SetGate >>

\* C7: with reset-to-default requested, Apply issues ResetNvConfig and then
\* SetNvConfigParameter(gate, true) and nothing else, from any NV state, and
\* returns (true, nil) when both succeed.
C7_ResetToDefault ==
    (last.op = "Apply" /\ device.ResetToDefault) =>
        /\ last.calls # <<>>
        /\ IsPrefix(last.calls, ResetSequence)
        /\ last.err = "nil" => (last.calls = ResetSequence /\ last.rebootNeeded)
        /\ last.err # "nil" => ~last.rebootNeeded

\* A successful reset of a device whose staged values were not the defaults,
\* after which they are the defaults plus the gate.
C7_Witness ==
    /\ last.op = "Apply" /\ device.ResetToDefault
    /\ last.err = "nil" /\ last.rebootNeeded
    /\ last.pre.NextBootConfig # last.pre.DefaultConfig
    /\ AdvancedPCISettingsEnabled(last.pre.CurrentConfig)
    /\ host.NextBootConfig
         = (AdvancedPCISettingsParam :> NvParamTrue) @@ last.pre.DefaultConfig

BootSequence ==
    << <<"QueryNvConfig">>, SetGate, <<"ResetNicFirmware">>, <<"QueryNvConfig">> >>

\* What the second query returns once the gate write and the firmware reset
\* have succeeded.
Refreshed ==
    QueryNvConfig(ResetNicFirmware(
        SetNvConfigParameter(last.pre, AdvancedPCISettingsParam, NvParamTrue)))

\* The desired-parameter writes a diff against snapshot nv asks for.
WriteSetOf(nv) ==
    {<<"SetNvConfigParameter", p, desiredConfig[p]>> :
        p \in {q \in DOMAIN desiredConfig :
                 Has(nv.NextBootConfig, q) /\ nv.NextBootConfig[q] # desiredConfig[q]}}

\* C8: on the normal path with the gate not enabled in the first snapshot the
\* host calls are QueryNvConfig, SetNvConfigParameter(gate, true),
\* ResetNicFirmware, QueryNvConfig, then the desired-parameter writes, and the
\* diff and the write set come from the second snapshot; with the gate
\* enabled there is one query and no gate write or firmware reset.
C8_BootstrapOrder ==
    (last.op = "Apply" /\ ~device.ResetToDefault) =>
        LET gateOn == AdvancedPCISettingsEnabled(last.pre.CurrentConfig)
            head == IF gateOn THEN << <<"QueryNvConfig">> >> ELSE BootSequence
            used == IF gateOn THEN QueryNvConfig(last.pre) ELSE Refreshed
            n == Len(head)
            tail == SubSeq(last.calls, n + 1, Len(last.calls))
        IN /\ last.calls # <<>>
           /\ IsPrefix(last.calls, head) \/ IsPrefix(head, last.calls)
           /\ Len(last.calls) < n => last.err = "host"
           /\ \A i \in DOMAIN tail : tail[i] \in WriteSetOf(used)
           /\ \A i, j \in DOMAIN tail : i # j => tail[i] # tail[j]
           /\ last.phase \in {"diff", "write"} => last.nvConfig = used
           /\ last.err = "nil" => {tail[i] : i \in DOMAIN tail} = WriteSetOf(used)
           /\ last.err = "spec" =>
                \E p \in DOMAIN desiredConfig :
                   ~Has(used.DefaultConfig, p) \/ ~Has(used.NextBootConfig, p)

\* A bootstrap that revealed a hidden parameter of the template, which the
\* call then wrote: the first snapshot did not have it.
C8_Witness ==
    /\ last.op = "Apply" /\ ~device.ResetToDefault
    /\ ~AdvancedPCISettingsEnabled(last.pre.CurrentConfig)
    /\ last.err = "nil"
    /\ Len(last.calls) > Len(BootSequence)
    /\ \E p \in last.pre.hidden :
         /\ p \in DOMAIN desiredConfig
         /\ <<"SetNvConfigParameter", p, desiredConfig[p]>>
              \in {last.calls[i] : i \in DOMAIN last.calls}

\* C10: ValidateDeviceNvSpec issues no mutating host call on any path and
\* leaves the device's Current/NextBoot/Default configs as they were.
C10_ValidateReadOnly ==
    last.op = "Validate" => (NoMutatingCall /\ host = last.pre)

\* A reset-to-default Validate that found the device off its defaults.
C10_Witness ==
    /\ last.op = "Validate" /\ device.ResetToDefault
    /\ last.configUpdateNeeded /\ last.rebootNeeded
    /\ host.NextBootConfig # host.DefaultConfig

----------------------------------------------------------------------------
(* Properties of ApplyDeviceRuntimeSpec.                                   *)

\* C9: when RuntimeConfigApplied reports true, ApplyDeviceRuntimeSpec returns
\* nil, issues no host call and leaves the runtime settings as they are.
C9_RuntimeNoOp ==
    (rt.last.op = "ApplyRuntime" /\ rt.last.alreadyApplied) =>
        /\ rt.last.err = "nil"
        /\ rt.last.calls = <<>>
        /\ rt.dev = rt.last.pre

\* A two-port device whose settings already match a non-zero request size.
C9_Witness ==
    /\ rt.last.op = "ApplyRuntime" /\ rt.last.alreadyApplied
    /\ rt.dev.ports = 2
    /\ rt.dev.spec.maxReadReqSize # 0
    /\ rt.last.err = "nil"

----------------------------------------------------------------------------
(* Failure handling.                                                       *)

\* C11 as the spec states it: an operation whose host-backed step fails - the
\* runtime-config check at the start of ApplyDeviceRuntimeSpec included -
\* issues no further host call and returns an error.
C11_AsStated ==
    /\ (last.op \in {"Validate", "Apply"} /\ last.err = "host") =>
           (~last.configUpdateNeeded /\ ~last.rebootNeeded)
    /\ (rt.last.op = "ApplyRuntime" /\ rt.last.checkErr # "nil") =>
           (rt.last.err # "nil" /\ rt.last.calls = <<>>)

----------------------------------------------------------------------------
(* DiscoverNicDevices.                                                     *)

MellanoxVendor == "15b3"
NetClass == 2
nodeName == "node-1"

\* The longest PCI enumeration explored.
MaxPci == 3

HexDigitValue ==
    ("0" :> 0) @@ ("1" :> 1) @@ ("2" :> 2) @@ ("3" :> 3) @@ ("4" :> 4)
    @@ ("5" :> 5) @@ ("6" :> 6) @@ ("7" :> 7) @@ ("8" :> 8) @@ ("9" :> 9)
    @@ ("a" :> 10) @@ ("b" :> 11) @@ ("c" :> 12) @@ ("d" :> 13)
    @@ ("e" :> 14) @@ ("f" :> 15)
    @@ ("A" :> 10) @@ ("B" :> 11) @@ ("C" :> 12) @@ ("D" :> 13)
    @@ ("E" :> 14) @@ ("F" :> 15)

RECURSIVE ParseUint16(_, _)
\* The digits of s, most significant first, on top of the value acc.
ParseUint16(s, acc) ==
    IF s = <<>> THEN [err |-> FALSE, value |-> acc]
    ELSE IF Head(s) \notin DOMAIN HexDigitValue
         THEN [err |-> TRUE, value |-> 0]
         ELSE ParseUint16(Tail(s), acc * 16 + HexDigitValue[Head(s)])

\* strconv.ParseInt(s, 16, 64) of a string given as its characters: an
\* optional sign, then at least one hexadecimal digit and nothing else.  The
\* class ids explored are too short for the range error.
ParseInt16(s) ==
    IF s = <<>> THEN [err |-> TRUE, value |-> 0]
    ELSE LET signed == Head(s) \in {"+", "-"}
             digits == IF signed THEN Tail(s) ELSE s
             u == ParseUint16(digits, 0)
         IN  IF digits = <<>> \/ u.err THEN [err |-> TRUE, value |-> 0]
             ELSE IF Head(s) = "-" THEN [err |-> FALSE, value |-> 0 - u.value]
                  ELSE u

\* A PCI device as the host reports it: the fields of the enumeration and
\* what the host utility answers for its address.  The address of a device
\* is its position in the enumeration.
PhysicalFunctions ==
    [Vendor : {MellanoxVendor}, Class : {<<"0", "2">>}, Product : {"1017"},
     vf : {FALSE}, serial : {"SN1", "SN2"}, part : {"PN1"},
     partErr : BOOLEAN, fwErr : BOOLEAN]

OtherDevices ==
    { [Vendor |-> "15b3", Class |-> <<"2">>, Product |-> "1019", vf |-> FALSE,
       serial |-> "SN1", part |-> "PN2", partErr |-> FALSE, fwErr |-> FALSE],
      [Vendor |-> "8086", Class |-> <<"0", "2">>, Product |-> "1572",
       vf |-> FALSE, serial |-> "SN1", part |-> "PN1", partErr |-> TRUE,
       fwErr |-> FALSE],
      [Vendor |-> "15b3", Class |-> <<"0", "3">>, Product |-> "1017",
       vf |-> FALSE, serial |-> "SN1", part |-> "PN1", partErr |-> FALSE,
       fwErr |-> TRUE],
      [Vendor |-> "15b3", Class |-> <<"0", "g">>, Product |-> "1017",
       vf |-> FALSE, serial |-> "SN2", part |-> "PN1", partErr |-> FALSE,
       fwErr |-> FALSE],
      [Vendor |-> "15b3", Class |-> <<>>, Product |-> "1017", vf |-> FALSE,
       serial |-> "SN1", part |-> "PN1", partErr |-> FALSE, fwErr |-> FALSE],
      [Vendor |-> "15b3", Class |-> <<"-", "2">>, Product |-> "1017",
       vf |-> FALSE, serial |-> "SN1", part |-> "PN1", partErr |-> FALSE,
       fwErr |-> FALSE],
      [Vendor |-> "15b3", Class |-> <<"0", "2">>, Product |-> "1018",
       vf |-> TRUE, serial |-> "SN1", part |-> "PN1", partErr |-> TRUE,
       fwErr |-> FALSE] }

PciDevices == PhysicalFunctions \cup OtherDevices

PciEnumerations == UNION {[1..n -> PciDevices] : n \in 0..MaxPci}

\* What the host utility answers for the address addr.
GetInterfaceName(addr) == <<"eth", addr>>
GetRDMADeviceName(addr) == <<"mlx5", addr>>
GetFirmwareVersionAndPSID(addr) == [firmwareVersion |-> <<"fw", addr>>,
                                    psid |-> <<"psid", addr>>]

\* AddPort_Prepended: the new port goes in front of the ports already there.
AddPort_Prepended(deviceStatus, port) ==
    [deviceStatus EXCEPT !.Ports = <<port>> \o @, !.Node = nodeName]

\* The record of a card with one more port, stamped with the node name.
AddPort(deviceStatus, port) ==
    [deviceStatus EXCEPT !.Ports = Append(@, port), !.Node = nodeName]

\* One iteration of the loop over the enumeration: acc holds the map built
\* so far, the error that ended the loop, if any, and the lookups made.
DiscoverDevice(acc, addr, dev) ==
    IF acc.err # "nil" THEN acc
    ELSE IF dev.Vendor # MellanoxVendor THEN acc
    ELSE IF ParseInt16(dev.Class).err THEN acc
    ELSE IF ParseInt16(dev.Class).value # NetClass THEN acc
    ELSE IF dev.vf THEN acc
    ELSE IF dev.partErr
         THEN [acc EXCEPT !.err = "host",
                          !.calls = Append(@, <<"GetPartAndSerialNumber", addr>>)]
    ELSE LET ok == dev.serial \in DOMAIN acc.devices
             calls == Append(acc.calls, <<"GetPartAndSerialNumber", addr>>)
             fwCalls == Append(calls, <<"GetFirmwareVersionAndPSID", addr>>)
         IN  IF ~ok /\ dev.fwErr
             THEN [acc EXCEPT !.err = "host", !.calls = fwCalls]
             ELSE LET fw == GetFirmwareVersionAndPSID(addr)
                      deviceStatus ==
                          IF ok THEN acc.devices[dev.serial]
                          ELSE [Type |-> dev.Product,
                                SerialNumber |-> dev.serial,
                                PartNumber |-> dev.part,
                                PSID |-> fw.psid,
                                FirmwareVersion |-> fw.firmwareVersion,
                                Node |-> "",
                                Ports |-> <<>>]
                      port == [PCI |-> addr,
                               NetworkInterface |-> GetInterfaceName(addr),
                               RdmaInterface |-> GetRDMADeviceName(addr)]
                      updated == AddPort(deviceStatus, port)
                  IN  [acc EXCEPT
                          !.devices = (updated.SerialNumber :> updated) @@ @,
                          !.calls = IF ok THEN calls ELSE fwCalls]

RECURSIVE DiscoverLoop(_, _, _)
DiscoverLoop(pciDevices, addr, acc) ==
    IF addr > Len(pciDevices) THEN acc
    ELSE DiscoverLoop(pciDevices, addr + 1,
                      DiscoverDevice(acc, addr, pciDevices[addr]))

\* DiscoverNicDevices_PartialOnError: a failed lookup returns the records
\* grouped so far along with the error.
DiscoverNicDevices_PartialOnError(pciDevices, listErr) ==
    IF listErr
    THEN [err |-> "host", isNil |-> TRUE, devices |-> <<>>, calls |-> <<>>]
    ELSE LET r == DiscoverLoop(pciDevices, 1,
                               [err |-> "nil", devices |-> <<>>, calls |-> <<>>])
         IN  [err |-> r.err, isNil |-> FALSE, devices |-> r.devices,
              calls |-> r.calls]

\* The whole call: the error, the map (isNil when the call returns no map)
\* and the identity lookups made.
DiscoverNicDevices(pciDevices, listErr) ==
    IF listErr
    THEN [err |-> "host", isNil |-> TRUE, devices |-> <<>>, calls |-> <<>>]
    ELSE LET r == DiscoverLoop(pciDevices, 1,
                               [err |-> "nil", devices |-> <<>>, calls |-> <<>>])
         IN  IF r.err # "nil"
             THEN [err |-> r.err, isNil |-> TRUE, devices |-> <<>>,
                   calls |-> r.calls]
             ELSE [err |-> "nil", isNil |-> FALSE, devices |-> r.devices,
                   calls |-> r.calls]

InitDiscover ==
    /\ host = [CurrentConfig |-> <<>>, NextBootConfig |-> <<>>,
               DefaultConfig |-> <<>>, hidden |-> {}]
    /\ device = [ResetToDefault |-> FALSE, Template |-> <<>>]
    /\ last = NoOp
    /\ rt = NoRt
    /\ conc = NoConc
    /\ \E pci \in PciEnumerations, listErr \in BOOLEAN :
         disc = [NoDisc EXCEPT !.pci = pci, !.listErr = listErr]

Discover ==
    /\ \E r \in {DiscoverNicDevices(disc.pci, disc.listErr)} :
         disc' = [disc EXCEPT !.op = "Discover", !.err = r.err,
                              !.isNil = r.isNil, !.devices = r.devices,
                              !.calls = r.calls]
    /\ UNCHANGED <<host, device, last, rt, conc>>

NextDiscover == Discover

SpecDiscover == InitDiscover /\ [][NextDiscover]_vars

----------------------------------------------------------------------------
(* Properties of DiscoverNicDevices.                                       *)

Discovered == disc.op = "Discover"

\* The device at addr passes the filters of the specification: target
\* vendor, network class, physical function.
Survives(addr) ==
    /\ disc.pci[addr].Vendor = MellanoxVendor
    /\ ~ParseInt16(disc.pci[addr].Class).err
    /\ ParseInt16(disc.pci[addr].Class).value = NetClass
    /\ ~disc.pci[addr].vf

Unparsable(addr) ==
    /\ disc.pci[addr].Vendor = MellanoxVendor
    /\ ParseInt16(disc.pci[addr].Class).err

Looked(name, addr) == \E i \in DOMAIN disc.calls : disc.calls[i] = <<name, addr>>

\* A lookup the call made failed.
LookupFailed ==
    \E addr \in DOMAIN disc.pci :
        \/ Looked("GetPartAndSerialNumber", addr) /\ disc.pci[addr].partErr
        \/ Looked("GetFirmwareVersionAndPSID", addr) /\ disc.pci[addr].fwErr

\* The host answers every lookup discovery can make for a surviving device.
HostHealthy ==
    /\ ~disc.listErr
    /\ \A addr \in DOMAIN disc.pci :
          Survives(addr) => ~disc.pci[addr].partErr /\ ~disc.pci[addr].fwErr

\* The ports, over all records, whose PCI address is addr.
PortsOf(addr) ==
    {<<s, i>> \in (DOMAIN disc.devices) \X (1..(MaxPci + 1)) :
        /\ i \in DOMAIN disc.devices[s].Ports
        /\ disc.devices[s].Ports[i].PCI = addr}

\* C12: a device with an unparsable class id is skipped - no lookup is made
\* for it, it is no port, and on a healthy host the call still succeeds and
\* reports the devices after it; a failed part/serial or firmware/PSID
\* lookup makes the call return an error and no map.
C12_FailurePolicy ==
    Discovered =>
        /\ \A addr \in DOMAIN disc.pci :
              Unparsable(addr) =>
                  /\ ~Looked("GetPartAndSerialNumber", addr)
                  /\ ~Looked("GetFirmwareVersionAndPSID", addr)
                  /\ PortsOf(addr) = {}
        /\ HostHealthy =>
              /\ disc.err = "nil" /\ ~disc.isNil
              /\ \A addr \in DOMAIN disc.pci :
                    Survives(addr) => PortsOf(addr) # {}
        /\ (LookupFailed \/ disc.listErr) =>
              disc.err = "host" /\ disc.isNil /\ disc.devices = <<>>

\* An unparsable device is followed by a surviving one that is reported.
C12_Witness ==
    /\ Discovered /\ disc.err = "nil"
    /\ \E a, b \in DOMAIN disc.pci :
          a < b /\ Unparsable(a) /\ Survives(b) /\ PortsOf(b) # {}

\* A firmware lookup fails after a card was already grouped.
C12_WitnessAbort ==
    /\ Discovered /\ disc.err = "host" /\ disc.isNil
    /\ \E a, b \in DOMAIN disc.pci :
          /\ a < b
          /\ Looked("GetFirmwareVersionAndPSID", a) /\ ~disc.pci[a].fwErr
          /\ Looked("GetFirmwareVersionAndPSID", b) /\ disc.pci[b].fwErr

\* C13: on success a device is a port exactly when it survives the filters,
\* then exactly once, in the record keyed by its serial number; the ports of
\* a record are in enumeration order; a record's SerialNumber is its key and
\* its Node the manager's node name.
C13_Grouping ==
    (Discovered /\ disc.err = "nil") =>
        /\ \A addr \in DOMAIN disc.pci :
              IF Survives(addr)
              THEN /\ Cardinality(PortsOf(addr)) = 1
                   /\ \A x \in PortsOf(addr) : x[1] = disc.pci[addr].serial
              ELSE PortsOf(addr) = {}
        /\ \A s \in DOMAIN disc.devices :
              /\ disc.devices[s].SerialNumber = s
              /\ disc.devices[s].Node = nodeName
              /\ \A i, j \in DOMAIN disc.devices[s].Ports :
                    i < j => disc.devices[s].Ports[i].PCI
                               < disc.devices[s].Ports[j].PCI
              /\ \A i \in DOMAIN disc.devices[s].Ports :
                    disc.devices[s].Ports[i].PCI \in DOMAIN disc.pci

\* Two cards, one of them with two ports.
C13_Witness ==
    /\ Discovered /\ disc.err = "nil"
    /\ Cardinality(DOMAIN disc.devices) = 2
    /\ \E s \in DOMAIN disc.devices : Len(disc.devices[s].Ports) = 2

\* C14 as the spec states it: every record discovery returns has one or two
\* ports.
C14_AsStated ==
    (Discovered /\ disc.err = "nil") =>
        \A s \in DOMAIN disc.devices : Len(disc.devices[s].Ports) \in {1, 2}

----------------------------------------------------------------------------
(* The call pattern of ApplyDeviceRuntimeSpec.                             *)

\* The last runtime call found the config not applied and returned nil.
RuntimeApplied ==
    /\ rt.last.op = "ApplyRuntime"
    /\ ~rt.last.alreadyApplied
    /\ rt.last.err = "nil"

RuntimeWant == CalculateDesiredRuntimeConfig(rt.last.pre)

\* How many times the last runtime call issued the host call c.
Issued(c) == Cardinality({i \in DOMAIN rt.last.calls : rt.last.calls[i] = c})

SizeCall(port) == <<"SetMaxReadRequestSize", port, RuntimeWant.maxReadReqSize>>
QosCall(port) == <<"SetTrustAndPFC", port, RuntimeWant.trust, RuntimeWant.pfc>>

\* C15 as the spec states it: the request size is set on port 0 always and on
\* port 1 only if there is a second port and the desired size is non-zero;
\* trust and PFC are set on port 0 always and on port 1 if there is one.
C15_AsStated ==
    RuntimeApplied =>
        /\ Issued(SizeCall(1)) = 1
        /\ Issued(SizeCall(2)) = IF rt.last.pre.ports >= 2
                                    /\ RuntimeWant.maxReadReqSize # 0
                                 THEN 1 ELSE 0
        /\ Issued(QosCall(1)) = 1
        /\ Issued(QosCall(2)) = IF rt.last.pre.ports >= 2 THEN 1 ELSE 0

\* C15: the request size is set on port 0 exactly when the desired size is
\* non-zero and on port 1 exactly when, besides, the device has exactly two
\* ports; trust and PFC are set on port 0 always and on port 1 exactly when
\* the device has exactly two ports; every call carries the desired values
\* and no other call is issued.
C15_CallPattern ==
    RuntimeApplied =>
        /\ Issued(SizeCall(1)) = IF RuntimeWant.maxReadReqSize # 0 THEN 1 ELSE 0
        /\ Issued(SizeCall(2)) = IF rt.last.pre.ports = 2
                                    /\ RuntimeWant.maxReadReqSize # 0
                                 THEN 1 ELSE 0
        /\ Issued(QosCall(1)) = 1
        /\ Issued(QosCall(2)) = IF rt.last.pre.ports = 2 THEN 1 ELSE 0
        /\ \A i \in DOMAIN rt.last.calls :
              rt.last.calls[i] \in {SizeCall(1), SizeCall(2), QosCall(1), QosCall(2)}

\* A two-port device gets all four calls.
C15_Witness ==
    /\ RuntimeApplied
    /\ rt.last.pre.ports = 2
    /\ Len(rt.last.calls) = 4

----------------------------------------------------------------------------
(* The diff and the write phase of ApplyDeviceNvSpec.                      *)

\* The last operation was an ApplyDeviceNvSpec on the normal path that got
\* as far as the diff against the snapshot last.nvConfig.
ReachedDiff ==
    /\ last.op = "Apply" /\ ~device.ResetToDefault
    /\ last.phase \in {"diff", "write"}

\* The writes of parameters of the template the last operation issued.
DesiredWrites ==
    {i \in DOMAIN last.calls :
        /\ last.calls[i][1] = "SetNvConfigParameter"
        /\ last.calls[i][2] \in DOMAIN desiredConfig}

\* C18: when a desired parameter is absent from the NextBootConfig the diff
\* runs against, Apply returns a spec error with rebootNeeded = false and has
\* written no desired parameter, in whatever order the maps are iterated.
C18_DiffBeforeWrite ==
    (ReachedDiff /\ \E p \in DOMAIN desiredConfig :
                        ~Has(last.nvConfig.NextBootConfig, p)) =>
        /\ last.err = "spec"
        /\ ~last.rebootNeeded
        /\ DesiredWrites = {}
        /\ host.NextBootConfig = last.nvConfig.NextBootConfig

\* One desired parameter differs from its next-boot value and the other is
\* absent from NextBootConfig although the default config has both.
C18_Witness ==
    /\ ReachedDiff /\ last.err = "spec"
    /\ \A p \in DOMAIN desiredConfig : Has(last.nvConfig.DefaultConfig, p)
    /\ \E p, q \in DOMAIN desiredConfig :
          /\ Has(last.nvConfig.NextBootConfig, p)
          /\ last.nvConfig.NextBootConfig[p] # desiredConfig[p]
          /\ ~Has(last.nvConfig.NextBootConfig, q)

\* C19: a normal-path Apply that returns no error has written each desired
\* parameter whose next-boot value differed from the desired one exactly
\* once, with the desired value, and no other desired parameter; afterwards
\* the next-boot value of every desired parameter is the desired one.
C19_ExactWrites ==
    (ReachedDiff /\ last.err = "nil") =>
        /\ \A i \in DesiredWrites : last.calls[i] \in WriteSetOf(last.nvConfig)
        /\ \A c \in WriteSetOf(last.nvConfig) :
              Cardinality({i \in DesiredWrites : last.calls[i] = c}) = 1
        /\ \A p \in DOMAIN desiredConfig :
              /\ Has(host.NextBootConfig, p)
              /\ host.NextBootConfig[p] = desiredConfig[p]

\* Of two desired parameters one differed and was written, the other matched
\* and was not.
C19_Witness ==
    /\ ReachedDiff /\ last.err = "nil"
    /\ Cardinality(DOMAIN desiredConfig) = 2
    /\ Cardinality(DesiredWrites) = 1
    /\ \E p \in DOMAIN desiredConfig :
          last.nvConfig.NextBootConfig[p] = desiredConfig[p]

\* C20: a ValidateDeviceNvSpec that follows a normal-path Apply that returned
\* (true, nil) - directly, or after the reboot that activates the staged
\* values - does not return configUpdateNeeded = true.
C20_ValidateAgrees ==
    (last.op = "Validate" /\ ~device.ResetToDefault
       /\ last.after \in {"apply", "applyWrote", "applyRebooted"})
        => ~last.configUpdateNeeded

\* Validate right after an Apply that wrote a desired parameter: no update
\* needed, reboot needed.
C20_Witness ==
    /\ last.op = "Validate" /\ ~device.ResetToDefault
    /\ last.after = "applyWrote"
    /\ last.err = "nil" /\ ~last.configUpdateNeeded /\ last.rebootNeeded

\* Validate after that Apply and the reboot: nothing left to do.
C20_WitnessRebooted ==
    /\ last.op = "Validate" /\ ~device.ResetToDefault
    /\ last.after = "applyRebooted"
    /\ desiredConfig # <<>>
    /\ last.err = "nil" /\ ~last.configUpdateNeeded /\ ~last.rebootNeeded

----------------------------------------------------------------------------
(* Re-driving ApplyDeviceNvSpec.                                           *)

\* The next-boot value of the desired parameter p in NV state h is the
\* desired one.
Matches(h, p) ==
    Has(h.NextBootConfig, p) /\ h.NextBootConfig[p] = desiredConfig[p]

Converged == \A p \in DOMAIN desiredConfig : Matches(host, p)

\* A write of the last pass failed: the pass returned the error and every
\* write before the failing one is still staged.
NoRollback ==
    (last.op = "Apply" /\ ~device.ResetToDefault /\ last.phase = "write"
       /\ last.err = "host") =>
        /\ ~last.rebootNeeded
        /\ \A i \in DesiredWrites :
              i < Len(last.calls) =>
                  /\ Has(host.NextBootConfig, last.calls[i][2])
                  /\ host.NextBootConfig[last.calls[i][2]] = last.calls[i][3]

\* A step leaves a desired parameter that matches matching.
MatchingKept ==
    ~device.ResetToDefault =>
        \A p \in DOMAIN desiredConfig : Matches(host, p) => Matches(host', p)

\* The snapshot the diff of a pass without host failure runs against: the
\* queried NV state or, with the gate not enabled in it, the one queried
\* again after the gate write and the firmware reset.
DiffSnapshot ==
    IF AdvancedPCISettingsEnabled(host.CurrentConfig)
    THEN QueryNvConfig(host)
    ELSE QueryNvConfig(ResetNicFirmware(
             SetNvConfigParameter(host, AdvancedPCISettingsParam, NvParamTrue)))

\* The device supports every desired parameter: each is in the DefaultConfig
\* and in the NextBootConfig of the snapshot the diff runs against.
Supported ==
    \A p \in DOMAIN desiredConfig :
        Has(DiffSnapshot.DefaultConfig, p) /\ Has(DiffSnapshot.NextBootConfig, p)

\* The last pass wrote no desired parameter and returned an error: the spec
\* error, or the host error of a call that failed before the diff.
PassRefused ==
    last.op = "Apply" =>
        /\ DesiredWrites = {}
        /\ ~last.rebootNeeded
        /\ \/ last.err = "spec" /\ last.phase = "diff"
           \/ last.err = "host" /\ last.phase = "bootstrap"

\* C17 as the spec states it: a failed write rolls nothing back, no pass
\* changes a matching parameter, and the repeated passes reach a state where
\* every desired parameter's next-boot value is the desired one.
C17_AsStated ==
    /\ []NoRollback
    /\ [][MatchingKept]_vars
    /\ <>[]Converged

\* C17, amended: a failed write rolls nothing back and no pass changes a
\* matching parameter; whether the device supports every desired parameter
\* does not change from pass to pass; if it does, the repeated passes reach,
\* for good, a state where every desired parameter's next-boot value is the
\* desired one; if it does not, no pass ever writes a desired parameter and
\* every pass returns an error, the spec error unless a host call fails
\* before the diff.
C17_Redrive ==
    /\ []NoRollback
    /\ [][MatchingKept]_vars
    /\ [][Supported' <=> Supported]_vars
    /\ Supported => <>[]Converged
    /\ [](~Supported => PassRefused)

\* The second of two desired-parameter writes failed and the first is staged.
C17_Witness ==
    /\ last.op = "Apply" /\ ~device.ResetToDefault
    /\ last.phase = "write" /\ last.err = "host"
    /\ Cardinality(DesiredWrites) = 2
    /\ \E i \in DesiredWrites :
          /\ i < Len(last.calls)
          /\ host.NextBootConfig[last.calls[i][2]] = last.calls[i][3]
          /\ last.nvConfig.NextBootConfig[last.calls[i][2]] # last.calls[i][3]

\* A pass over a device that lacks a desired parameter returned the spec
\* error from the diff and wrote nothing.
C17_WitnessRefused ==
    /\ last.op = "Apply" /\ ~device.ResetToDefault
    /\ ~Supported
    /\ last.err = "spec" /\ last.phase = "diff"
    /\ DesiredWrites = {}

----------------------------------------------------------------------------
(* Two calls in flight on two devices: one host call per step.             *)

\* The two devices, by the PCI address of their first port.
Addrs == {1, 2}

\* Mutant of AddrOf: every call goes to the same PCI address.
AddrOf_Shared(dev) == 1

\* The address a call hands to the host utility: the PCI address of the
\* device's first port.
AddrOf(dev) == dev.addr

\* The devices and NV states of the concurrent runs: nothing staged (current
\* and next-boot agree), P1 unsupported, hidden behind the gate or at its
\* factory value, P2 at "0" or "1".
ConcDevices(a) ==
    {[ResetToDefault |-> TRUE, Template |-> <<>>, addr |-> a],
     [ResetToDefault |-> FALSE, Template |-> ("P1" :> "1"), addr |-> a],
     [ResetToDefault |-> FALSE, Template |-> ("P1" :> "1") @@ ("P2" :> "1"),
      addr |-> a]}

ConcHosts ==
    {h \in Hosts :
        /\ h.CurrentConfig = h.NextBootConfig
        /\ DOMAIN h.DefaultConfig = DOMAIN h.NextBootConfig
        /\ Has(h.NextBootConfig, "P2") /\ h.NextBootConfig["P2"] \in {"0", "1"}
        /\ Has(h.NextBootConfig, "P1") => h.NextBootConfig["P1"] = "0"}

\* A call that has not issued its first host call yet.
NewCall(op, dev) ==
    [op |-> op, dev |-> dev, pc |-> "start", calls |-> <<>>, nvConfig |-> <<>>,
     paramsToApply |-> <<>>, todo |-> <<>>, rebootNeeded |-> FALSE,
     configUpdateNeeded |-> FALSE, err |-> "nil"]

\* The call returns.
Finish(p, rebootNeeded, configUpdateNeeded, err) ==
    [p EXCEPT !.pc = "done", !.rebootNeeded = rebootNeeded,
              !.configUpdateNeeded = configUpdateNeeded, !.err = err]

\* The host call the call p issues next.
NextCall(p) ==
    CASE p.pc = "start" ->
            IF p.op = "Apply" /\ p.dev.ResetToDefault
            THEN <<"ResetNvConfig">> ELSE <<"QueryNvConfig">>
      [] p.pc \in {"resetGate", "setGate"} -> SetGate
      [] p.pc = "resetFw" -> <<"ResetNicFirmware">>
      [] p.pc = "requery" -> <<"QueryNvConfig">>
      [] p.pc = "write" ->
            <<"SetNvConfigParameter", Head(p.todo), p.paramsToApply[Head(p.todo)]>>

\* ApplyDeviceNvSpec between the snapshot it works on and its first write
\* (host.go:241-262): the desired map and the diff, no host call.
AfterSnapshot(p, nvConfig, order, writeOrder) ==
    LET built == ConstructNvParamMapFromTemplate(p.dev, nvConfig.DefaultConfig)
        diff == DiffLoop(RangeOver(order, built.desiredConfig),
                         [paramsToApply |-> <<>>, err |-> "nil"],
                         built.desiredConfig, nvConfig)
        q == [p EXCEPT !.nvConfig = nvConfig]
    IN IF built.err # "nil" THEN Finish(q, FALSE, FALSE, built.err)
       ELSE IF diff.err # "nil" THEN Finish(q, FALSE, FALSE, diff.err)
       ELSE IF diff.paramsToApply = <<>> THEN Finish(q, TRUE, FALSE, "nil")
       ELSE [q EXCEPT !.pc = "write", !.paramsToApply = diff.paramsToApply,
                      !.todo = RangeOver(writeOrder, diff.paramsToApply)]

\* The call p once its next host call, on NV state h, has succeeded, and the
\* NV state the host call leaves.
AfterCall(p, h, order, writeOrder) ==
    LET q == [p EXCEPT !.calls = Append(@, [addr |-> AddrOf(p.dev),
                                            call |-> NextCall(p)])]
        gateSet == SetNvConfigParameter(h, AdvancedPCISettingsParam, NvParamTrue)
    IN CASE p.op = "Validate" ->
              LET r == ValidateDeviceNvSpec(p.dev, h, 0, order)
              IN [proc |-> Finish([q EXCEPT !.nvConfig = QueryNvConfig(h)],
                                  r.rebootNeeded, r.configUpdateNeeded, r.err),
                  host |-> h]
         [] p.op = "Apply" /\ p.pc = "start" /\ p.dev.ResetToDefault ->
              [proc |-> [q EXCEPT !.pc = "resetGate"], host |-> ResetNvConfig(h)]
         [] p.op = "Apply" /\ p.pc = "resetGate" ->
              [proc |-> Finish(q, TRUE, FALSE, "nil"), host |-> gateSet]
         [] p.op = "Apply" /\ p.pc = "start" /\ ~p.dev.ResetToDefault ->
              IF AdvancedPCISettingsEnabled(QueryNvConfig(h).CurrentConfig)
              THEN [proc |-> AfterSnapshot(q, QueryNvConfig(h), order, writeOrder),
                    host |-> h]
              ELSE [proc |-> [q EXCEPT !.pc = "setGate",
                                       !.nvConfig = QueryNvConfig(h)],
                    host |-> h]
         [] p.op = "Apply" /\ p.pc = "setGate" ->
              [proc |-> [q EXCEPT !.pc = "resetFw"], host |-> gateSet]
         [] p.op = "Apply" /\ p.pc = "resetFw" ->
              [proc |-> [q EXCEPT !.pc = "requery"], host |-> ResetNicFirmware(h)]
         [] p.op = "Apply" /\ p.pc = "requery" ->
              [proc |-> AfterSnapshot(q, QueryNvConfig(h), order, writeOrder),
               host |-> h]
         [] p.op = "Apply" /\ p.pc = "write" ->
              [proc |-> IF Tail(p.todo) = <<>>
                        THEN Finish([q EXCEPT !.todo = <<>>], TRUE, FALSE, "nil")
                        ELSE [q EXCEPT !.todo = Tail(p.todo)],
               host |-> SetNvConfigParameter(h, Head(p.todo),
                                             p.paramsToApply[Head(p.todo)])]

\* The call p once its next host call has failed: it returns the error; what
\* its earlier host calls did stays done.
AfterFailure(p) ==
    Finish([p EXCEPT !.calls = Append(@, [addr |-> AddrOf(p.dev),
                                          call |-> NextCall(p)])],
           FALSE, FALSE, "host")

InitConcurrent ==
    /\ host = [CurrentConfig |-> <<>>, NextBootConfig |-> <<>>,
               DefaultConfig |-> <<>>, hidden |-> {}]
    /\ device = [ResetToDefault |-> FALSE, Template |-> <<>>]
    /\ last = NoOp
    /\ rt = NoRt
    /\ disc = NoDisc
    /\ \E store \in [Addrs -> ConcHosts],
          d1 \in ConcDevices(1), d2 \in ConcDevices(2),
          op2 \in {"Apply", "Validate"} :
         conc = [store |-> store, init |-> store, interleaved |-> FALSE,
                 proc |-> <<NewCall("Apply", d1), NewCall(op2, d2)>>]

\* The call i issues its next host call, which succeeds or fails; the other
\* call may be anywhere between two of its own host calls.
ConcStep ==
    /\ conc # NoConc
    /\ \E i \in Addrs :
         /\ conc.proc[i].pc # "done"
         /\ \E fails \in BOOLEAN, order \in Orders, writeOrder \in Orders :
              LET p == conc.proc[i]
                  a == AddrOf(p.dev)
                  other == conc.proc[3 - i]
                  mid == other.pc \notin {"start", "done"}
              IN \E r \in {IF fails
                           THEN [proc |-> AfterFailure(p), host |-> conc.store[a]]
                           ELSE AfterCall(p, conc.store[a], order, writeOrder)} :
                    conc' = [conc EXCEPT !.proc[i] = r.proc,
                                         !.store[a] = r.host,
                                         !.interleaved = @ \/ mid]
    /\ UNCHANGED <<host, device, last, rt, disc>>

NextConcurrent == ConcStep

SpecConcurrent == InitConcurrent /\ [][NextConcurrent]_vars

\* Both calls have returned.
BothDone == conc # NoConc /\ \A i \in Addrs : conc.proc[i].pc = "done"

\* The host calls of the call p, without their addresses.
CallsOf(p) == [k \in DOMAIN p.calls |-> p.calls[k].call]

\* The call p returned what the whole operation, run alone on the NV state h0
\* of its device, returns, with the same host calls, and left its device in
\* the NV state h1 the operation run alone leaves.
AsRunAlone(p, h0, h1) ==
    LET failAt == IF p.err = "host" THEN Len(p.calls) ELSE 0
    IN IF p.op = "Validate"
       THEN \E order \in Orders :
              LET r == ValidateDeviceNvSpec(p.dev, h0, failAt, order)
              IN /\ r.err = p.err
                 /\ r.configUpdateNeeded = p.configUpdateNeeded
                 /\ r.rebootNeeded = p.rebootNeeded
                 /\ r.calls = CallsOf(p)
                 /\ r.host = h1
       ELSE \E order \in Orders, writeOrder \in Orders :
              LET r == ApplyDeviceNvSpec(p.dev, h0, failAt, order, writeOrder)
              IN /\ r.err = p.err
                 /\ r.rebootNeeded = p.rebootNeeded
                 /\ r.calls = CallsOf(p)
                 /\ r.host = h1

\* C16: under every interleaving of the host calls of two calls on distinct
\* devices, each call addresses its own device only and, once both have
\* returned, each has the result and has left its device in the NV state of
\* the operation run alone on the device's initial NV state.
C16_DistinctDevices ==
    conc # NoConc =>
        /\ \A i \in Addrs : \A k \in DOMAIN conc.proc[i].calls :
              conc.proc[i].calls[k].addr = conc.proc[i].dev.addr
        /\ BothDone =>
              \A i \in Addrs :
                  AsRunAlone(conc.proc[i], conc.init[i], conc.store[i])

\* Two applies that both wrote to their device, with host calls of the one
\* between host calls of the other.
C16_Witness ==
    /\ BothDone /\ conc.interleaved
    /\ \A i \in Addrs :
          /\ conc.proc[i].op = "Apply" /\ conc.proc[i].err = "nil"
          /\ conc.store[i] # conc.init[i]
          /\ Len(conc.proc[i].calls) >= 3

====
